---- MODULE Spec2Model ----
(***************************************************************************)
(* FinSight ETL pipeline: etl_pipeline/main.py (orchestrator and           *)
(* Fetch-Transform loop), etl_pipeline/ai_insights.py (Insight stage),     *)
(* etl_pipeline/lstm_predictor.py (Prediction stage) and                   *)
(* etl_pipeline/news_scraper.py (Sentiment stage), over an Azure blob      *)
(* store modelled as a map from blob names to CSV contents.                *)
(*                                                                         *)
(* A pandas DataFrame is a record [index, cols, n, shape, by]: the name of *)
(* its index, its column names in order, its number of rows, the shape of  *)
(* its Close series (CloseAt gives the values) and the invocation whose    *)
(* current run fetched it ("old": a run that has ended).  A CSV blob is    *)
(* [header, n, shape, by].  A float is [k |-> "num", v |-> Int], or        *)
(* [k |-> "nan"], [k |-> "inf"]; Python's None is [k |-> "none"].          *)
(***************************************************************************)
EXTENDS Integers, Sequences, FiniteSets, TLC

VARIABLES
    profile,      \* which environment inputs this specification explores
    blobs,        \* the blob store: blob name -> CSV content or NoBlob
    pc,           \* per invocation: position in main()
    i,            \* per invocation: index of the current loop's ticker
    df_raw,       \* per invocation: main's df_raw
    client,       \* per invocation: run_ai_pipeline's client
    insights,     \* per invocation: run_ai_pipeline's insights list
    predictions,  \* per invocation: run_lstm_pipeline's predictions list
    stage,        \* per invocation: the current run's progress: how main and each
                  \* stage ended, the tickers the Fetch-Transform loop has fetched
    log,          \* per invocation: the external calls and log records of the
                  \* loop the run is in (or has just left), in order
    sent,         \* the Sentiment stage's own state (run_sentiment_pipeline)
    probe         \* a direct call of create_dataset / train_and_predict: its
                  \* argument and what it returned

vars == <<profile, blobs, pc, i, df_raw, client, insights, predictions,
          stage, log, sent, probe>>

mainVars == <<pc, i, df_raw, client, insights, predictions, stage, log>>

(***************************************************************************)
(* Configuration (main.py:71-74) and program constants.                    *)
(***************************************************************************)
raw_container == "rawdata"
processed_container == "processeddata"
\* STOCK_TICKERS as configured for the runs explored: a two-ticker universe.
tickers == <<"AAPL", "MSFT">>
required_cols == <<"Open", "High", "Low", "Close", "Volume">>
\* len(df) < 100
MinRows == 100
\* look_back = 60
look_back == 60

\* The two ways main() gets invoked: function_app.run_etl and __main__.
Procs == {"timer", "manual"}

NoBlob == [kind |-> "absent"]
None == [k |-> "none"]
NaN == [k |-> "nan"]
Pending == [k |-> "pending"]
Num(v) == [k |-> "num", v |-> v]

RawBlob(t) == <<raw_container, t, "_raw.csv">>
ProcessedBlob(t) == <<processed_container, t, "_processed.csv">>
AiBlob == <<processed_container, "", "ai_insights.csv">>
LstmBlob == <<processed_container, "", "lstm_predictions.csv">>
SentimentBlob == <<processed_container, "", "sentiment_analysis.csv">>

TickerSet == {tickers[n] : n \in 1..Len(tickers)}
BlobNames == {RawBlob(t) : t \in TickerSet} \cup {ProcessedBlob(t) : t \in TickerSet}
                 \cup {AiBlob, LstmBlob, SentimentBlob}

(***************************************************************************)
(* DataFrames and CSV text.                                                *)
(***************************************************************************)
\* pd.DataFrame()
EmptyDF == [index |-> "range", cols |-> <<>>, n |-> 0, shape |-> "none", by |-> "none"]

\* df.empty: some axis has length 0
IsEmpty(df) == df.n = 0 \/ df.cols = <<>>

Has(cols, c) == \E n \in 1..Len(cols) : cols[n] = c

\* The Close column's value on row r (1-based) of a series of a given shape.
CloseAt(shape, r) ==
    CASE shape = "up" -> 100 + r
      [] shape = "saw" -> 100 + ((r * 7) % 5)
      [] OTHER -> 100

\* [c for c in required_cols if c in df.columns]; df = df[available_cols]
SelectCols(required, cols) == SelectSeq(required, LAMBDA c : Has(cols, c))

\* What yf.download gave: an exception, or a frame indexed by Date.
YfError == [k |-> "error", cols |-> <<>>, n |-> 0, shape |-> "none"]
YfFrame(cols, n, shape) == [k |-> "df", cols |-> cols, n |-> n, shape |-> shape]

fetch_stock_data(p, resp) ==
    IF resp.k = "error" THEN EmptyDF
    ELSE IF resp.n = 0 \/ resp.cols = <<>> THEN EmptyDF
    ELSE [index |-> "Date", cols |-> SelectCols(required_cols, resp.cols),
          n |-> resp.n, shape |-> resp.shape, by |-> p]

\* df["Close"] raises KeyError on a frame without that column.
TransformRaises(df) == ~Has(df.cols, "Close")

\* copy, add return_pct, reset_index: the index becomes the leading column.
transform_data(df) ==
    [df EXCEPT !.cols = <<df.index>> \o df.cols \o <<"return_pct">>,
               !.index = "range"]

\* df.to_csv(output, index=include_index)
to_csv(df, include_index) ==
    [header |-> IF include_index
                THEN <<IF df.index = "range" THEN "" ELSE df.index>> \o df.cols
                ELSE df.cols,
     n |-> df.n, shape |-> df.shape, by |-> df.by]

\* pd.read_csv(..., index_col=0): the first column becomes the index.
read_csv(csv) ==
    [index |-> Head(csv.header), cols |-> Tail(csv.header),
     n |-> csv.n, shape |-> csv.shape, by |-> csv.by]

\* read_csv raises EmptyDataError on text without a header line.
ReadRaises(csv) == csv.header = <<>>


(***************************************************************************)
(* Environment inputs.  Each specification fixes `profile` in its initial  *)
(* states; the profile selects how much of the environment's freedom the   *)
(* specification explores.                                                 *)
(***************************************************************************)
FullCols == <<"Close", "High", "Low", "Open", "Volume">>
NoCloseCols == <<"High", "Low", "Open", "Volume">>

YfResponses ==
    IF profile \in {"pipeline", "overlap"}
    THEN {YfError, YfFrame(FullCols, MinRows, "up")}
    ELSE {YfError, YfFrame(FullCols, 0, "none"),
          YfFrame(FullCols, MinRows - 1, "up"), YfFrame(FullCols, MinRows, "up"),
          YfFrame(NoCloseCols, MinRows, "up")}

\* A blob operation (exists, download_blob, upload_blob) succeeds or raises.
BlobOutcomes == IF profile = "overlap" THEN {"ok"} ELSE {"ok", "raise"}

\* os.getenv("OPENAI_API_KEY") is set or not (the openai import succeeding).
Clients == IF profile = "overlap" THEN {None} ELSE {None, [k |-> "client"]}

(***************************************************************************)
(* Tags.  When an invocation starts a new run, what its previous run wrote *)
(* becomes "old".                                                          *)
(***************************************************************************)
AgeTag(tag, p) == IF tag = p THEN "old" ELSE tag

AgeRow(row, p) == [row EXCEPT !.run = AgeTag(@, p), !.from = AgeTag(@, p)]

AgeContent(c, p) ==
    IF c = NoBlob THEN c
    ELSE IF "rows" \in DOMAIN c
         THEN [c EXCEPT !.by = AgeTag(@, p),
                        !.rows = [n \in 1..Len(c.rows) |-> AgeRow(c.rows[n], p)]]
         ELSE [c EXCEPT !.by = AgeTag(@, p)]

Age(store, p) == [b \in DOMAIN store |-> AgeContent(store[b], p)]

(***************************************************************************)
(* main(): start, and the Fetch-Transform loop (main.py:66-100).           *)
(***************************************************************************)
NoStage == [main |-> "none", fetched |-> <<>>, ai |-> "none", lstm |-> "none"]

\* A log entry: the stage, the call or log record, the blob (or source) it is
\* about, and for "predict" what train_and_predict returned.
EventV(st, op, arg, val) == [st |-> st, op |-> op, arg |-> arg, val |-> val]
Event(st, op, arg) == EventV(st, op, arg, None)

Logged(p, events) == log' = [log EXCEPT ![p] = @ \o events]

\* A for loop over tickers (main.py:84, ai_insights.py:88, lstm_predictor.py:76)
\* steps to its next ticker, or past the loop to `after`.
Advance(p, loop, after) ==
    /\ i' = [i EXCEPT ![p] = IF @ < Len(tickers) THEN @ + 1 ELSE 1]
    /\ pc' = [pc EXCEPT ![p] = IF i[p] < Len(tickers) THEN loop ELSE after]

\* NextStage with the two stages after the loop in the other order.
NextStageSwapped(st) ==
    CASE st = "etl" -> "lstm_start"
      [] st = "lstm" -> "ai_start"
      [] OTHER -> "done"

\* main.py:100-112: what main runs after the Fetch-Transform loop ("etl"),
\* after run_ai_pipeline ("ai") and after run_lstm_pipeline ("lstm").
NextStage(st) ==
    CASE st = "etl" -> "ai_start"
      [] st = "ai" -> "lstm_start"
      [] OTHER -> "done"

\* StageRaised without main's try/except: the exception leaves main.
StagePropagates(p, st) ==
    /\ stage' = [stage EXCEPT ![p][st] = "failed", ![p].main = "raised"]
    /\ pc' = [pc EXCEPT ![p] = "idle"]

\* main.py:104-107 and 109-112: an exception leaving a stage is caught and
\* logged, and main goes on.
StageRaised(p, st) ==
    /\ stage' = [stage EXCEPT ![p][st] = "failed"]
    /\ pc' = [pc EXCEPT ![p] = NextStage(st)]

\* main.py:68-82: read the configuration, create the blob client.
MainStart(p) ==
    /\ pc[p] = "idle"
    /\ \E connected \in BOOLEAN :
         IF connected
         THEN /\ pc' = [pc EXCEPT ![p] = "fetch"]
              /\ stage' = [stage EXCEPT ![p] = [NoStage EXCEPT !.main = "running"]]
              /\ blobs' = Age(blobs, p)
         ELSE /\ stage' = [stage EXCEPT ![p] = [NoStage EXCEPT !.main = "raised"]]
              /\ UNCHANGED <<pc, blobs>>
    /\ i' = [i EXCEPT ![p] = 1]
    /\ log' = [log EXCEPT ![p] = <<>>]
    /\ UNCHANGED <<profile, df_raw, client, insights, predictions, sent, probe>>

\* main.py:86-88: fetch; an empty frame skips the ticker (continue).
Fetch(p) ==
    /\ pc[p] = "fetch"
    /\ \E resp \in YfResponses :
         LET t == tickers[i[p]]
             df == fetch_stock_data(p, resp)
         IN IF IsEmpty(df)
            THEN /\ Advance(p, "fetch", NextStage("etl"))
                 /\ Logged(p, <<Event("etl", "fetch", <<"yfinance", t, "empty">>)>>)
                 /\ UNCHANGED df_raw
            ELSE /\ df_raw' = [df_raw EXCEPT ![p] = df]
                 /\ pc' = [pc EXCEPT ![p] = "upload_raw"]
                 /\ Logged(p, <<Event("etl", "fetch", <<"yfinance", t, "data">>)>>)
                 /\ UNCHANGED i
    /\ stage' = [stage EXCEPT ![p].fetched = Append(@, tickers[i[p]])]
    /\ UNCHANGED <<profile, blobs, client, insights, predictions, sent, probe>>

\* upload_to_azure with overwrite=False: a blob that exists keeps what it holds.
upload_to_azure_keep(store, blob_name, df, include_index) ==
    IF store[blob_name] # NoBlob THEN store
    ELSE [store EXCEPT ![blob_name] = to_csv(df, include_index)]

\* main.py:49-55
upload_to_azure(store, blob_name, df, include_index) ==
    [store EXCEPT ![blob_name] = to_csv(df, include_index)]

\* TickerFailed with the try around the loop instead of its body: the first
\* failing ticker ends the loop.
TickerAborts(p, blob_name) ==
    /\ i' = [i EXCEPT ![p] = 1]
    /\ pc' = [pc EXCEPT ![p] = NextStage("etl")]
    /\ df_raw' = [df_raw EXCEPT ![p] = EmptyDF]
    /\ Logged(p, <<Event("etl", "error", blob_name)>>)
    /\ UNCHANGED blobs

\* main.py:97-98: the except clause of the loop body: log, next ticker.
TickerFailed(p, blob_name) ==
    /\ Advance(p, "fetch", NextStage("etl"))
    /\ df_raw' = [df_raw EXCEPT ![p] = EmptyDF]
    /\ Logged(p, <<Event("etl", "error", blob_name)>>)
    /\ UNCHANGED blobs

\* main.py:90: upload the raw frame.
UploadRaw(p) ==
    /\ pc[p] = "upload_raw"
    /\ \E o \in BlobOutcomes :
         LET t == tickers[i[p]]
         IN IF o = "ok"
            THEN /\ blobs' = upload_to_azure(blobs, RawBlob(t), df_raw[p], TRUE)
                 /\ pc' = [pc EXCEPT ![p] = "upload_processed"]
                 /\ Logged(p, <<Event("etl", "upload", RawBlob(t))>>)
                 /\ UNCHANGED <<i, df_raw>>
            ELSE TickerFailed(p, RawBlob(t))
    /\ UNCHANGED <<profile, client, insights, predictions, stage, sent, probe>>

\* main.py:92-93: transform, upload the processed frame.
UploadProcessed(p) ==
    /\ pc[p] = "upload_processed"
    /\ \E o \in BlobOutcomes :
         LET t == tickers[i[p]]
         IN IF ~TransformRaises(df_raw[p]) /\ o = "ok"
            THEN /\ blobs' = upload_to_azure(blobs, ProcessedBlob(t),
                                             transform_data(df_raw[p]), FALSE)
                 /\ pc' = [pc EXCEPT ![p] = "sleep"]
                 /\ Logged(p, <<Event("etl", "upload", ProcessedBlob(t))>>)
                 /\ UNCHANGED <<i, df_raw>>
            ELSE TickerFailed(p, ProcessedBlob(t))
    /\ UNCHANGED <<profile, client, insights, predictions, stage, sent, probe>>

\* main.py:96: time.sleep(15), then the next ticker.
Sleep(p) ==
    /\ pc[p] = "sleep"
    /\ Advance(p, "fetch", NextStage("etl"))
    /\ df_raw' = [df_raw EXCEPT ![p] = EmptyDF]
    /\ Logged(p, <<Event("etl", "sleep", <<"time", tickers[i[p]], "15">>)>>)
    /\ UNCHANGED <<profile, blobs, client, insights, predictions, stage, sent, probe>>

(***************************************************************************)
(* Insight stage (ai_insights.py).  A text is a sequence of strings: the   *)
(* pieces of an f-string, or the characters of a completion.               *)
(***************************************************************************)
\* What client.chat.completions.create gave: an exception, or message.content.
CompletionError == [k |-> "raise", content |-> <<>>]
Completion(content) == [k |-> "text", content |-> content]

\* message.content is None (or choices is empty): .strip() raises inside the try.
CompletionNull == [k |-> "null", content |-> <<>>]

Completions ==
    IF profile \in {"pipeline", "overlap"} THEN {CompletionError}
    ELSE {CompletionError, CompletionNull,
          Completion(<<" ", "U", "p", ".", " ">>),
          Completion(<<" ", "\n">>),
          Completion(<<>>)}

IsSpace(ch) == ch \in {" ", "\t", "\n"}

RECURSIVE lstrip(_)
lstrip(s) == IF s # <<>> /\ IsSpace(Head(s)) THEN lstrip(Tail(s)) ELSE s

RECURSIVE rstrip(_)
rstrip(s) ==
    IF s # <<>> /\ IsSpace(s[Len(s)]) THEN rstrip(SubSeq(s, 1, Len(s) - 1)) ELSE s

\* str.strip()
strip(s) == rstrip(lstrip(s))

\* std(return_pct) * 100 > 2.0: the saw-tooth series moves by 2 to 3 percent
\* a day, the others by under 1 percent; with fewer than two returns (one or
\* two rows) std is NaN and the comparison false.
VolatilityHigh(df) == df.shape = "saw" /\ df.n > 2

\* Columns generate_local_insight reads; a missing one raises KeyError.
LocalRaises(df) ==
    /\ ~IsEmpty(df)
    /\ \E c \in {"Close", "return_pct", "Volume"} : ~Has(df.cols, c)

\* ai_insights.py:29-43: the sentence for a table with rows.  Numbers appear
\* as exact values (daily_return as the fraction it is computed from);
\* volatility and avg_volume are functions of the series, named by it.
Template(df, ticker) ==
    LET latest_close == CloseAt(df.shape, df.n)
        prev_close == IF df.n > 1 THEN CloseAt(df.shape, df.n - 1)
                      ELSE latest_close
        daily_return == [num |-> (latest_close - prev_close) * 100, den |-> prev_close]
        trend == IF daily_return.num > 0 THEN "bullish" ELSE "bearish"
        vol_desc == IF VolatilityHigh(df) THEN "high" ELSE "stable"
        series == <<df.shape, ToString(df.n)>>
    IN <<ticker, " closed at $", ToString(latest_close), ", showing a ", trend,
         " move of ", ToString(daily_return.num), "/", ToString(daily_return.den),
         "%. Volatility remains ", vol_desc, " (volatility of ">> \o series \o
       <<"%), with an average volume of (avg_volume of ">> \o series \o
       <<") shares. Market sentiment appears ", trend,
         " based on recent price action.">>

\* generate_local_insight giving no text for an empty table.
generate_local_insight_blank(df, ticker) ==
    IF IsEmpty(df) THEN <<>> ELSE Template(df, ticker)

\* ai_insights.py:23-44
generate_local_insight(df, ticker) ==
    IF IsEmpty(df) THEN <<ticker, ": No data available for insight.">>
    ELSE Template(df, ticker)

\* generate_openai_insight with a fixed notice in place of the template.
generate_openai_insight_notice(df, ticker, completion) ==
    IF IsEmpty(df) THEN <<ticker, ": No data available.">>
    ELSE IF completion.k # "text" THEN <<ticker, ": Insight unavailable.">>
    ELSE strip(completion.content)

\* ai_insights.py:46-72: the completion, stripped; the template when it fails.
generate_openai_insight(df, ticker, completion) ==
    IF IsEmpty(df) THEN <<ticker, ": No data available.">>
    ELSE IF completion.k # "text" THEN generate_local_insight(df, ticker)
    ELSE strip(completion.content)

OpenaiRaises(df, completion) == completion.k # "text" /\ LocalRaises(df)

InsightsHeader == <<"Ticker", "Insight", "Date">>

\* StageInput reading the raw artifact.
StageInputRaw(t) == RawBlob(t)

\* ai_insights.py:91 and lstm_predictor.py:79: the blob a stage reads.
StageInput(t) == ProcessedBlob(t)

\* What a stage's loop logs for a ticker whose blob it found and downloaded.
Read(st, t) == <<Event(st, "exists", StageInput(t)), Event(st, "download", StageInput(t))>>

\* SaveContent appending to what the blob held instead of replacing it.
SaveAppended(held, header, rows, p) ==
    [header |-> header,
     rows |-> (IF held = NoBlob THEN <<>> ELSE held.rows) \o rows,
     by |-> p]

\* ai_insights.py:114-120 and lstm_predictor.py:109-115: the aggregate CSV,
\* uploaded with overwrite=True whatever the blob held (`held`).
SaveContent(held, header, rows, p) == [header |-> header, rows |-> rows, by |-> p]

\* ai_insights.py:79-86: the client, the empty insights list.
AiStart(p) ==
    /\ pc[p] = "ai_start"
    /\ \E c \in Clients : client' = [client EXCEPT ![p] = c]
    /\ insights' = [insights EXCEPT ![p] = <<>>]
    /\ i' = [i EXCEPT ![p] = 1]
    /\ pc' = [pc EXCEPT ![p] = "ai_loop"]
    /\ stage' = [stage EXCEPT ![p].ai = "running"]
    /\ log' = [log EXCEPT ![p] = <<>>]
    /\ UNCHANGED <<profile, blobs, df_raw, predictions, sent, probe>>

\* ai_insights.py:88-110: one ticker of the loop.
AiTicker(p) ==
    /\ pc[p] = "ai_loop"
    /\ \E o \in BlobOutcomes, completion \in Completions :
         LET t == tickers[i[p]]
             blob == blobs[StageInput(t)]
             df == read_csv(blob)
             raises == IF client[p] = None THEN LocalRaises(df)
                       ELSE OpenaiRaises(df, completion)
             insight_text == IF client[p] = None
                             THEN generate_local_insight(df, t)
                             ELSE generate_openai_insight(df, t, completion)
             failed == IF client[p] # None /\ ~IsEmpty(df) /\ completion.k # "text"
                       THEN <<Event("ai", "completion_error", StageInput(t))>>
                       ELSE <<>>
         IN IF o = "raise"
            THEN /\ Logged(p, <<Event("ai", "error", StageInput(t))>>)
                 /\ UNCHANGED insights
            ELSE IF blob = NoBlob
            THEN /\ Logged(p, <<Event("ai", "exists", StageInput(t))>>)
                 /\ UNCHANGED insights
            ELSE IF ReadRaises(blob)
            THEN /\ Logged(p, Read("ai", t) \o <<Event("ai", "error", StageInput(t))>>)
                 /\ UNCHANGED insights
            ELSE IF raises
            THEN /\ Logged(p, Read("ai", t) \o failed
                              \o <<Event("ai", "error", StageInput(t))>>)
                 /\ UNCHANGED insights
            ELSE /\ Logged(p, Read("ai", t) \o failed)
                 /\ insights' = [insights EXCEPT ![p] = Append(@,
                        [Ticker |-> t, Insight |-> insight_text, Date |-> "today",
                         run |-> p, from |-> df.by])]
    /\ Advance(p, "ai_loop", "ai_save")
    /\ UNCHANGED <<profile, blobs, df_raw, client, predictions, stage, sent, probe>>

\* ai_insights.py:112-123: upload the aggregate when there is any row.  An
\* exception here leaves run_ai_pipeline and is caught by main.py:106.
AiSave(p) ==
    /\ pc[p] = "ai_save"
    /\ IF insights[p] # <<>>
       THEN \E o \in BlobOutcomes :
              IF o = "ok"
              THEN /\ blobs' = [blobs EXCEPT ![AiBlob] =
                          SaveContent(@, InsightsHeader, insights[p], p)]
                   /\ stage' = [stage EXCEPT ![p].ai = "uploaded"]
                   /\ pc' = [pc EXCEPT ![p] = NextStage("ai")]
                   /\ Logged(p, <<Event("ai", "upload", AiBlob)>>)
              ELSE /\ StageRaised(p, "ai")
                   /\ Logged(p, <<Event("ai", "error", AiBlob)>>)
                   /\ UNCHANGED blobs
       ELSE /\ stage' = [stage EXCEPT ![p].ai = "skipped"]
            /\ pc' = [pc EXCEPT ![p] = NextStage("ai")]
            /\ UNCHANGED <<blobs, log>>
    /\ UNCHANGED <<profile, i, df_raw, client, insights, predictions, sent, probe>>

(***************************************************************************)
(* Prediction stage (lstm_predictor.py).  Scaled values are fixed-point    *)
(* numbers with Fixed units to 1.0.                                        *)
(***************************************************************************)
Fixed == 1000

PosInf == [k |-> "inf", v |-> 1]
NegInf == [k |-> "inf", v |-> -1]

\* df["Close"].values
Closes(df) == [r \in 1..df.n |-> CloseAt(df.shape, r)]

RECURSIVE RangeMin(_, _, _)
RangeMin(s, lo, hi) ==
    IF lo = hi THEN s[lo]
    ELSE LET mid == (lo + hi) \div 2
             a == RangeMin(s, lo, mid)
             b == RangeMin(s, mid + 1, hi)
         IN IF a <= b THEN a ELSE b

RECURSIVE RangeMax(_, _, _)
RangeMax(s, lo, hi) ==
    IF lo = hi THEN s[lo]
    ELSE LET mid == (lo + hi) \div 2
             a == RangeMax(s, lo, mid)
             b == RangeMax(s, mid + 1, hi)
         IN IF a >= b THEN a ELSE b

SeqMin(s) == RangeMin(s, 1, Len(s))
SeqMax(s) == RangeMax(s, 1, Len(s))

\* MinMaxScaler(feature_range=(0, 1)).fit_transform: a constant series has
\* range 0, which sklearn replaces by 1, so it scales to all zeros.
MinMaxScale(data) ==
    IF data = <<>> THEN <<>>
    ELSE LET lo == SeqMin(data)
             hi == SeqMax(data)
             range == IF hi = lo THEN 1 ELSE hi - lo
         IN [r \in 1..Len(data) |-> ((data[r] - lo) * Fixed) \div range]

\* create_dataset_from with the loop one short: range(len(dataset)-look_back-2).
RECURSIVE create_dataset_short(_, _, _, _)
create_dataset_short(dataset, lb, idx, acc) ==
    IF idx < Len(dataset) - lb - 2
    THEN create_dataset_short(dataset, lb, idx + 1,
             [X |-> Append(acc.X, SubSeq(dataset, idx + 1, idx + lb)),
              Y |-> Append(acc.Y, dataset[idx + lb + 1])])
    ELSE acc

\* lstm_predictor.py:15-18: the loop body from index idx (0-based) on.
RECURSIVE create_dataset_from(_, _, _, _)
create_dataset_from(dataset, lb, idx, acc) ==
    IF idx < Len(dataset) - lb - 1
    THEN create_dataset_from(dataset, lb, idx + 1,
             [X |-> Append(acc.X, SubSeq(dataset, idx + 1, idx + lb)),
              Y |-> Append(acc.Y, dataset[idx + lb + 1])])
    ELSE acc

\* lstm_predictor.py:12-19
create_dataset(dataset, lb) ==
    create_dataset_from(dataset, lb, 0, [X |-> <<>>, Y |-> <<>>])

\* What training and model.predict give, after inverse_transform and float():
\* an exception, or a float that may be non-finite.
ModelError == [k |-> "raise"]

ModelOutputs(c) ==
    IF profile = "lstm"
    THEN {ModelError, NaN, PosInf, NegInf, Num(0), Num(c - 1), Num(c), Num(c + 1)}
    ELSE IF profile = "overlap" THEN {Num(c + 1)}
    ELSE {ModelError, Num(c + 1)}

\* Prepare with the row test off by one: `len(df) <= 100`.
PrepareOffByOne(df) ==
    IF df.n <= MinRows THEN None
    ELSE IF ~Has(df.cols, "Close") THEN ModelError
    ELSE [k |-> "train", samples |-> df.n - look_back - 1]

\* lstm_predictor.py:30-44: what train_and_predict has before it builds the
\* model: None to return (too few rows, or no training window), ModelError
\* (df["Close"] raised), or the training set.
Prepare(df) ==
    IF df.n < MinRows THEN None
    ELSE IF ~Has(df.cols, "Close") THEN ModelError
    ELSE LET data == Closes(df)
             scaled_data == MinMaxScale(data)
             train == create_dataset(scaled_data, look_back)
         IN IF Len(train.X) = 0 THEN None
            ELSE [k |-> "train", samples |-> Len(train.X)]

\* lstm_predictor.py:46-65: build, fit, predict, inverse_transform, float().
Predict(prepared, out) == IF prepared.k = "train" THEN out ELSE prepared

\* lstm_predictor.py:21-65.  The result is None, ModelError (an exception
\* left the function) or the predicted price.
train_and_predict(df, out) == Predict(Prepare(df), out)

\* Python's truth value of a float or None: only None and 0.0 are false.
Truthy(x) == ~(x = None \/ x = Num(0))

\* pred_price > current_price, a comparison with NaN being false.
Greater(x, c) ==
    CASE x.k = "num" -> x.v > c
      [] x.k = "inf" -> x.v > 0
      [] OTHER -> FALSE

\* ((pred_price - current_price) / current_price) * 100 as the exact ratio
\* num / den; NaN and the infinities carry through (current_price > 0).
PctChange(x, c) ==
    IF x.k = "num" THEN [k |-> "ratio", num |-> (x.v - c) * 100, den |-> c]
    ELSE x

PredictionsHeader == <<"Ticker", "Current Price", "Predicted 1D Price",
                       "Direction", "Predicted % Change", "Date">>

\* lstm_predictor.py:91-102: the row of a ticker.
PredictionRow(p, t, df, pred_price) ==
    LET current_price == CloseAt(df.shape, df.n)
    IN [Ticker |-> t, Current |-> current_price, Predicted |-> pred_price,
        Direction |-> IF Greater(pred_price, current_price) THEN "UP" ELSE "DOWN",
        Pct |-> PctChange(pred_price, current_price), Date |-> "today",
        run |-> p, from |-> df.by]

\* lstm_predictor.py:68-74
LstmStart(p) ==
    /\ pc[p] = "lstm_start"
    /\ predictions' = [predictions EXCEPT ![p] = <<>>]
    /\ i' = [i EXCEPT ![p] = 1]
    /\ pc' = [pc EXCEPT ![p] = "lstm_loop"]
    /\ stage' = [stage EXCEPT ![p].lstm = "running"]
    /\ log' = [log EXCEPT ![p] = <<>>]
    /\ UNCHANGED <<profile, blobs, df_raw, client, insights, sent, probe>>

\* lstm_predictor.py:76-106: one ticker of the loop.
LstmTicker(p) ==
    /\ pc[p] = "lstm_loop"
    /\ LET t == tickers[i[p]]
           blob == blobs[StageInput(t)]
           df == read_csv(blob)
       IN \E o \in BlobOutcomes :
            IF o = "raise"
            THEN /\ Logged(p, <<Event("lstm", "error", StageInput(t))>>)
                 /\ UNCHANGED predictions
            ELSE IF blob = NoBlob
            THEN /\ Logged(p, <<Event("lstm", "exists", StageInput(t))>>)
                 /\ UNCHANGED predictions
            ELSE IF ReadRaises(blob)
            THEN /\ Logged(p, Read("lstm", t) \o <<Event("lstm", "error", StageInput(t))>>)
                 /\ UNCHANGED predictions
            ELSE LET prepared == Prepare(df)
                 IN \E out \in ModelOutputs(CloseAt(df.shape, df.n)) :
                      LET pred_price == Predict(prepared, out)
                      IN IF pred_price = ModelError
                         THEN /\ Logged(p, Read("lstm", t)
                                           \o <<Event("lstm", "error", StageInput(t))>>)
                              /\ UNCHANGED predictions
                         ELSE /\ Logged(p, Read("lstm", t)
                                   \o (IF pred_price = None
                                       THEN <<Event("lstm", "warning", StageInput(t))>>
                                       ELSE <<>>)
                                   \o <<EventV("lstm", "predict", StageInput(t),
                                               pred_price)>>)
                              /\ predictions' = [predictions EXCEPT ![p] =
                                     IF Truthy(pred_price)
                                     THEN Append(@, PredictionRow(p, t, df, pred_price))
                                     ELSE @]
    /\ Advance(p, "lstm_loop", "lstm_save")
    /\ UNCHANGED <<profile, blobs, df_raw, client, insights, stage, sent, probe>>

\* lstm_predictor.py:108-116: upload the aggregate when there is any row.  An
\* exception here leaves run_lstm_pipeline and is caught by main.py:111.
LstmSave(p) ==
    /\ pc[p] = "lstm_save"
    /\ IF predictions[p] # <<>>
       THEN \E o \in BlobOutcomes :
              IF o = "ok"
              THEN /\ blobs' = [blobs EXCEPT ![LstmBlob] =
                          SaveContent(@, PredictionsHeader, predictions[p], p)]
                   /\ stage' = [stage EXCEPT ![p].lstm = "uploaded"]
                   /\ pc' = [pc EXCEPT ![p] = NextStage("lstm")]
                   /\ Logged(p, <<Event("lstm", "upload", LstmBlob)>>)
              ELSE /\ StageRaised(p, "lstm")
                   /\ Logged(p, <<Event("lstm", "error", LstmBlob)>>)
                   /\ UNCHANGED blobs
       ELSE /\ stage' = [stage EXCEPT ![p].lstm = "skipped"]
            /\ pc' = [pc EXCEPT ![p] = NextStage("lstm")]
            /\ UNCHANGED <<blobs, log>>
    /\ UNCHANGED <<profile, i, df_raw, client, insights, predictions, sent, probe>>

\* main.py:112: main returns (function_app.py:18 logs success); its locals go.
Return(p) ==
    /\ pc[p] = "done"
    /\ pc' = [pc EXCEPT ![p] = "idle"]
    /\ stage' = [stage EXCEPT ![p] = [NoStage EXCEPT !.main = "returned"]]
    /\ client' = [client EXCEPT ![p] = None]
    /\ insights' = [insights EXCEPT ![p] = <<>>]
    /\ predictions' = [predictions EXCEPT ![p] = <<>>]
    /\ log' = [log EXCEPT ![p] = <<>>]
    /\ UNCHANGED <<profile, blobs, i, df_raw, sent, probe>>

(***************************************************************************)
(* news_scraper.py: fetch_and_analyze_news and run_sentiment_pipeline.     *)
(* main() does not call run_sentiment_pipeline; it is an entry point of    *)
(* its own, with its own position and locals in `sent`.                    *)
(***************************************************************************)
NewsLimit == 5

\* What yf.Ticker(t).news gives: an exception, or a list of items.  An item
\* is a dict that may lack "content"; content may lack "title" and
\* "clickThroughUrl" (None stands for a missing key or a null).
NewsError == [k |-> "raise"]
NewsList(items) == [k |-> "list", items |-> items]
Missing == [k |-> "missing"]
NewsItem(title, click) == [content |-> [title |-> title, clickThroughUrl |-> click]]
NoContentItem == [content |-> Missing]
Titled(x) == [k |-> "str", s |-> x]
Url(x) == [url |-> Titled(x)]

NewsResponses ==
    {NewsError,
     NewsList(<<>>),
     NewsList(<<NewsItem(Titled("gain"), Url("u1")), NewsItem(None, Url("u2")),
                NewsItem(Titled("flat"), None)>>)}

\* TextBlob(title).sentiment: polarity and subjectivity of the headline, as
\* exact fractions.
Polarity(title) ==
    CASE title = "gain" -> [num |-> 1, den |-> 2]
      [] title = "loss" -> [num |-> -1, den |-> 2]
      [] OTHER -> [num |-> 0, den |-> 1]

Subjectivity(title) ==
    CASE title = "gain" -> [num |-> 1, den |-> 2]
      [] title = "loss" -> [num |-> 1, den |-> 2]
      [] OTHER -> [num |-> 0, den |-> 1]

\* news_scraper.py:43
sentiment_label(score) ==
    IF score.num * 10 > score.den THEN "POSITIVE"
    ELSE IF score.num * 10 < -score.den THEN "NEGATIVE"
    ELSE "NEUTRAL"

\* news_scraper.py:20 item.get('content', {})
ContentOf(item) ==
    IF item.content = Missing THEN [title |-> None, clickThroughUrl |-> None]
    ELSE item.content

\* news_scraper.py:20-25 raise when content is null (None has no .get).
ItemRaises(item) == item.content = None

\* `if not title or not link`: an item without a link dropped as well.
HasTitleAndLink(item) ==
    LET content == ContentOf(item)
    IN content.title # None /\ content.title.s # "" /\ content.clickThroughUrl # None

\* news_scraper.py:27 `if not title`
HasTitle(item) ==
    LET title == ContentOf(item).title
    IN title # None /\ title.s # ""

\* news_scraper.py:24-25, 30-46: the entry appended for an item with a title.
Analyze(ticker, item) ==
    LET content == ContentOf(item)
        link_obj == content.clickThroughUrl
        score == Polarity(content.title.s)
    IN [ticker |-> ticker,
        title |-> content.title.s,
        link |-> IF link_obj # None THEN link_obj.url ELSE None,
        sentiment_score |-> score,
        sentiment_label |-> sentiment_label(score),
        subjectivity |-> Subjectivity(content.title.s),
        fetched_at |-> "now",
        run |-> "sent",
        from |-> "news"]

\* news_scraper.py:18 news_items[:limit]
Slice(s, limit) == SubSeq(s, 1, IF Len(s) < limit THEN Len(s) ELSE limit)

\* The function's result: the list it returns (and whether it logged an
\* error), or an exception that left it.
Returned(results, logged) == [k |-> "return", results |-> results, logged |-> logged]

\* fetch_and_analyze_news without its try/except (news_scraper.py:12, 50-52).
fetch_and_analyze_news_unguarded(ticker, resp, limit) ==
    IF resp = NewsError THEN [k |-> "raise"]
    ELSE LET items == Slice(resp.items, limit)
         IN IF \E n \in 1..Len(items) : ItemRaises(items[n])
            THEN [k |-> "raise"]
            ELSE LET kept == SelectSeq(items, HasTitle)
                 IN Returned([n \in 1..Len(kept) |-> Analyze(ticker, kept[n])], FALSE)

\* news_scraper.py:7-52
fetch_and_analyze_news(ticker, resp, limit) ==
    IF resp = NewsError THEN Returned(<<>>, TRUE)
    ELSE LET items == Slice(resp.items, limit)
         IN IF \E n \in 1..Len(items) : ItemRaises(items[n])
            THEN Returned(<<>>, TRUE)
            ELSE LET kept == SelectSeq(items, HasTitle)
                 IN Returned([n \in 1..Len(kept) |-> Analyze(ticker, kept[n])], FALSE)

SentimentHeader ==
    <<"ticker", "title", "link", "sentiment_score", "sentiment_label",
      "subjectivity", "fetched_at">>

NewsOf(t) == <<"news", t, "">>

\* news_scraper.py:62-67
SentStart ==
    /\ sent.pc = "idle"
    /\ sent' = [pc |-> "loop", i |-> 1, all_news |-> <<>>, asked |-> <<>>,
                log |-> <<>>, saved |-> "no"]
    /\ blobs' = Age(blobs, "sent")
    /\ UNCHANGED <<profile, pc, i, df_raw, client, insights, predictions, stage,
                   log, probe>>

\* news_scraper.py:69-78: one ticker of the loop.
SentTicker ==
    /\ sent.pc = "loop"
    /\ sent.i <= Len(tickers)
    /\ \E resp \in NewsResponses :
         LET ticker == tickers[sent.i]
             got == fetch_and_analyze_news(ticker, resp, NewsLimit)
             inner == IF got.k = "return" /\ got.logged
                      THEN <<Event("sentiment", "news_error", NewsOf(ticker))>>
                      ELSE <<>>
         IN sent' = [sent EXCEPT
               !.i = @ + 1,
               !.asked = Append(@, resp),
               !.all_news = IF got.k = "return" THEN @ \o got.results ELSE @,
               !.log = @ \o inner \o
                       (IF got.k = "raise"
                        THEN <<Event("sentiment", "pipeline_error", NewsOf(ticker))>>
                        ELSE IF got.results = <<>>
                        THEN <<Event("sentiment", "warning", NewsOf(ticker))>>
                        ELSE <<Event("sentiment", "info", NewsOf(ticker))>>)]
    /\ UNCHANGED <<profile, blobs, pc, i, df_raw, client, insights, predictions,
                   stage, log, probe>>

SentLoopEnd ==
    /\ sent.pc = "loop"
    /\ sent.i > Len(tickers)
    /\ sent' = [sent EXCEPT !.pc = "save"]
    /\ UNCHANGED <<profile, blobs, pc, i, df_raw, client, insights, predictions,
                   stage, log, probe>>

\* news_scraper.py:80-95: the upload, its exception logged and dropped.
SentSave ==
    /\ sent.pc = "save"
    /\ IF sent.all_news # <<>>
       THEN \E o \in BlobOutcomes :
              IF o = "ok"
              THEN /\ blobs' = [blobs EXCEPT ![SentimentBlob] =
                          SaveContent(@, SentimentHeader, sent.all_news, "sent")]
                   /\ sent' = [sent EXCEPT !.pc = "done", !.saved = "uploaded",
                          !.log = Append(@, Event("sentiment", "upload", SentimentBlob))]
              ELSE /\ sent' = [sent EXCEPT !.pc = "done", !.saved = "failed",
                          !.log = Append(@, Event("sentiment", "error", SentimentBlob))]
                   /\ UNCHANGED blobs
       ELSE /\ sent' = [sent EXCEPT !.pc = "done", !.saved = "skipped",
                   !.log = Append(@, Event("sentiment", "warning", SentimentBlob))]
            /\ UNCHANGED blobs
    /\ UNCHANGED <<profile, pc, i, df_raw, client, insights, predictions, stage,
                   log, probe>>

\* run_sentiment_pipeline returns to its caller.
SentReturn ==
    /\ sent.pc = "done"
    /\ sent' = [pc |-> "idle"]
    /\ UNCHANGED <<profile, blobs, pc, i, df_raw, client, insights, predictions,
                   stage, log, probe>>

(***************************************************************************)
(* dashboard/chat_logic.py: generate_chat_response, called directly.  The  *)
(* call's arguments and result are in `probe`.                             *)
(***************************************************************************)
OfflineMessage == <<"Broadcasting from FinBot: I'm offline! (Missing OpenAI Key)">>

Str(x) == [k |-> "str", s |-> x]
List(items) == [k |-> "list", items |-> items]

\* What client.chat.completions.create gave: an exception with its text, or
\* the content of the first choice.
ChatError(msg) == [k |-> "raise", msg |-> msg]
ChatText(content) == [k |-> "text", content |-> content]
NoCall == [k |-> "nocall"]

ChatErrors == {ChatError("Request timed out."), ChatError("Rate limit reached")}
ChatOutcomes == ChatErrors \cup {ChatText(<<"The trend is bullish.">>)}

\* What generate_chat_response gives its caller.
ChatReturn(text) == [k |-> "return", text |-> text]
ChatRaise == [k |-> "raise"]

\* chat_logic.py:21-40; reads Close, High and Low of a frame with rows.
TechnicalsRaise(df) ==
    /\ ~IsEmpty(df)
    /\ \E c \in {"Close", "High", "Low"} : ~Has(df.cols, c)

calculate_technicals(df) ==
    IF IsEmpty(df) THEN <<"No data available.">>
    ELSE LET last_close == CloseAt(df.shape, df.n)
         IN <<"- Current Price: $", ToString(last_close),
              "- 60-Day High (Resistance): (High.max of ", df.shape, ToString(df.n), ")",
              "- 60-Day Low (Support): (Low.min of ", df.shape, ToString(df.n), ")",
              "- Technical Trend: (Price vs 20-MA of ", df.shape, ToString(df.n), ")">>

\* chat_logic.py:54, 62, 65, 71: the truth value of an optional argument.
Given(x) == x # None /\ (x.k = "list" => x.items # <<>>) /\ (x.k = "str" => x.s # "")

\* chat_logic.py:68-69
RECURSIVE SentimentLines(_)
SentimentLines(items) ==
    IF items = <<>> THEN <<>>
    ELSE <<"- [", items[1].sentiment_label, "] ", items[1].title, " (Score: ",
           ToString(items[1].sentiment_score.num), "/",
           ToString(items[1].sentiment_score.den), ")">>
         \o SentimentLines(Tail(items))

\* chat_logic.py:52-72: an exception raised while the context is assembled.
ContextRaises(a) == TechnicalsRaise(a.recent_data)

\* chat_logic.py:52-75: the system message followed by the history.
full_messages(a) ==
    <<[role |-> "system", content |->
         <<"SYSTEM_PROMPT", "CONTEXT:", "User is currently looking at ", a.current_ticker>>
         \o (IF ~IsEmpty(a.recent_data)
             THEN <<"TECHNICAL ANALYSIS (Visual Trends):">>
                  \o calculate_technicals(a.recent_data)
                  \o <<"Latest Data (Last 5 Days):", a.recent_data.shape,
                       ToString(a.recent_data.n)>>
             ELSE <<>>)
         \o (IF Given(a.prediction)
             THEN <<"AI PREDICTION (LSTM Model): Tomorrow's Price: $",
                    ToString(a.prediction.price.v), a.prediction.direction>>
             ELSE <<>>)
         \o (IF Given(a.sentiment_context)
             THEN <<"NEWS SENTIMENT (Latest Headlines):">>
                  \o SentimentLines(Slice(a.sentiment_context.items, 3))
             ELSE <<>>)
         \o (IF Given(a.market_context)
             THEN <<"MARKET CONTEXT (Comparisons):", a.market_context.s>>
             ELSE <<>>)]>>
    \o a.messages

\* generate_chat_response letting the exception of the call through.
generate_chat_response_unguarded(a, outcome) ==
    IF a.client = None THEN ChatReturn(OfflineMessage)
    ELSE IF ContextRaises(a) THEN ChatRaise
    ELSE IF outcome.k = "raise" THEN ChatRaise
    ELSE ChatReturn(outcome.content)

\* chat_logic.py:42-85
generate_chat_response(a, outcome) ==
    IF a.client = None THEN ChatReturn(OfflineMessage)
    ELSE IF ContextRaises(a) THEN ChatRaise
    ELSE IF outcome.k = "raise" THEN ChatReturn(<<"FinBot Error: ", outcome.msg>>)
    ELSE ChatReturn(outcome.content)

\* The call reaches client.chat.completions.create (chat_logic.py:78).
CallMade(a) == a.client # None /\ ~ContextRaises(a)

ChatCall ==
    /\ probe.k = "chat"
    /\ probe.ret = Pending
    /\ \E outcome \in ChatOutcomes :
         probe' = [probe EXCEPT
            !.ret = generate_chat_response(probe.args, outcome),
            !.request = IF CallMade(probe.args) THEN full_messages(probe.args) ELSE <<>>,
            !.outcome = IF CallMade(probe.args) THEN outcome ELSE NoCall]
    /\ UNCHANGED <<profile, blobs, pc, i, df_raw, client, insights, predictions,
                   stage, log, sent>>

(***************************************************************************)
(* transform_data on the rows of a table (main.py:58-63).  A table is      *)
(* [index_name, index, cols, col]: the index values, the column names in   *)
(* order and each column's values; Table(df) is the table a DataFrame      *)
(* record stands for.                                                      *)
(***************************************************************************)
\* The value of column c on row r (1-based) of a series of a given shape.
Cell(shape, c, r) ==
    CASE c = "Close" -> CloseAt(shape, r)
      [] c = "High" -> CloseAt(shape, r) + 2
      [] c = "Low" -> CloseAt(shape, r) - 2
      [] c = "Open" -> CloseAt(shape, r) - 1
      [] OTHER -> 1000 * r

\* Row r's index value: the trading day of a Date index, else the position.
IndexAt(index_name, r) == IF index_name = "Date" THEN 20240100 + r ELSE r - 1

Names(cols) == {cols[n] : n \in 1..Len(cols)}

Table(df) ==
    [index_name |-> df.index,
     index |-> [r \in 1..df.n |-> IndexAt(df.index, r)],
     cols |-> df.cols,
     col |-> [c \in Names(df.cols) |-> [r \in 1..df.n |-> Cell(df.shape, c, r)]]]

\* A float quotient a / b, exact.
Quotient(a, b) ==
    IF b # 0 THEN [k |-> "ratio", num |-> a, den |-> b]
    ELSE IF a = 0 THEN NaN
    ELSE [k |-> "inf", v |-> IF a > 0 THEN 1 ELSE -1]

\* pct_change giving 0 on the first row.
pct_change_zero_first(xs) ==
    [r \in 1..Len(xs) |->
        IF r = 1 THEN Quotient(0, 1) ELSE Quotient(xs[r] - xs[r - 1], xs[r - 1])]

\* Series.pct_change(): NaN on the first row, the relative change after it.
pct_change(xs) ==
    [r \in 1..Len(xs) |->
        IF r = 1 THEN NaN ELSE Quotient(xs[r] - xs[r - 1], xs[r - 1])]

\* main.py:61: df_transformed["return_pct"] = ...; a new column goes last.
WithColumn(t, name, values) ==
    [t EXCEPT !.cols = IF name \in Names(t.cols) THEN t.cols ELSE Append(t.cols, name),
              !.col = [c \in Names(t.cols) \cup {name} |->
                          IF c = name THEN values ELSE t.col[c]]]

\* main.py:62: reset_index(inplace=True): the index becomes the first column
\* and a RangeIndex replaces it.
reset_index(t) ==
    [index_name |-> "range",
     index |-> [r \in 1..Len(t.index) |-> r - 1],
     cols |-> <<t.index_name>> \o t.cols,
     col |-> [c \in Names(t.cols) \cup {t.index_name} |->
                 IF c = t.index_name THEN t.index ELSE t.col[c]]]

\* main.py:60-63 on rows.
transform_table(t) == reset_index(WithColumn(t, "return_pct", pct_change(t.col["Close"])))

\* transform_effect without the copy: the caller's frame is the one changed.
transform_effect_inplace(t) == [arg |-> transform_table(t), ret |-> transform_table(t)]

\* main.py:58-63: the caller's frame after the call (df.copy() leaves it as it
\* was) and the frame returned.
transform_effect(t) == [arg |-> t, ret |-> transform_table(t)]

ProbeTransform ==
    /\ probe.k = "transform"
    /\ probe.ret = Pending
    /\ LET e == transform_effect(Table(probe.df))
       IN probe' = [probe EXCEPT !.table = e.arg, !.ret = e.ret]
    /\ UNCHANGED <<profile, blobs, pc, i, df_raw, client, insights, predictions,
                   stage, log, sent>>

(***************************************************************************)
(* Spec: scheduled runs of main(), one after another, from an empty blob   *)
(* store.                                                                  *)
(***************************************************************************)
NoSent == [pc |-> "idle"]
NoProbe == [k |-> "none"]

InitMain ==
    /\ pc = [p \in Procs |-> "idle"]
    /\ i = [p \in Procs |-> 1]
    /\ df_raw = [p \in Procs |-> EmptyDF]
    /\ client = [p \in Procs |-> None]
    /\ insights = [p \in Procs |-> <<>>]
    /\ predictions = [p \in Procs |-> <<>>]
    /\ stage = [p \in Procs |-> NoStage]
    /\ log = [p \in Procs |-> <<>>]

Init ==
    /\ profile = "pipeline"
    /\ blobs = [b \in BlobNames |-> NoBlob]
    /\ InitMain
    /\ sent = NoSent
    /\ probe = NoProbe

Step(p) ==
    \/ MainStart(p)
    \/ Fetch(p)
    \/ UploadRaw(p)
    \/ UploadProcessed(p)
    \/ Sleep(p)
    \/ AiStart(p)
    \/ AiTicker(p)
    \/ AiSave(p)
    \/ LstmStart(p)
    \/ LstmTicker(p)
    \/ LstmSave(p)
    \/ Return(p)

Next == Step("timer")

Spec == Init /\ [][Next]_vars


(***************************************************************************)
(* SpecEtl: the Fetch-Transform loop of one run, over every kind of        *)
(* response of the market data source.                                     *)
(***************************************************************************)
InitEtl ==
    /\ profile = "etl"
    /\ blobs = [b \in BlobNames |-> NoBlob]
    /\ InitMain
    /\ sent = NoSent
    /\ probe = NoProbe

NextEtl ==
    \/ MainStart("timer")
    \/ Fetch("timer")
    \/ UploadRaw("timer")
    \/ UploadProcessed("timer")
    \/ Sleep("timer")

SpecEtl == InitEtl /\ [][NextEtl]_vars

(***************************************************************************)
(* SpecLstm: the Prediction stage of one run, over processed tables on     *)
(* both sides of the row threshold and every kind of model output.         *)
(***************************************************************************)
\* The processed blob an ended run uploaded for a frame of n rows.
ProcessedCsv(n, shape) ==
    to_csv(transform_data(fetch_stock_data("old", YfFrame(FullCols, n, shape))), FALSE)

LstmTables == {NoBlob, ProcessedCsv(MinRows - 1, "up"), ProcessedCsv(MinRows, "up")}

InitLstm ==
    /\ profile = "lstm"
    /\ \E tables \in [TickerSet -> LstmTables] :
         blobs = [b \in BlobNames |->
                    IF \E t \in TickerSet : b = ProcessedBlob(t)
                    THEN tables[b[2]] ELSE NoBlob]
    /\ pc = [p \in Procs |-> IF p = "timer" THEN NextStage("ai") ELSE "idle"]
    /\ i = [p \in Procs |-> 1]
    /\ df_raw = [p \in Procs |-> EmptyDF]
    /\ client = [p \in Procs |-> None]
    /\ insights = [p \in Procs |-> <<>>]
    /\ predictions = [p \in Procs |-> <<>>]
    /\ stage = [p \in Procs |->
                  IF p = "timer"
                  THEN [main |-> "running", fetched |-> tickers,
                        ai |-> "skipped", lstm |-> "none"]
                  ELSE NoStage]
    /\ log = [p \in Procs |-> <<>>]
    /\ sent = NoSent
    /\ probe = NoProbe

NextLstm ==
    \/ LstmStart("timer")
    \/ LstmTicker("timer")
    \/ LstmSave("timer")
    \/ Return("timer")

SpecLstm == InitLstm /\ [][NextLstm]_vars

(***************************************************************************)
(* SpecDataset: create_dataset and train_and_predict called directly on    *)
(* close series of every length from 0 to a few windows past look_back,    *)
(* and at the row threshold.                                               *)
(***************************************************************************)
MaxWindows == 3

DatasetLengths == (0 .. look_back + 1 + MaxWindows) \cup {MinRows - 1, MinRows}

InitDataset ==
    /\ profile = "dataset"
    /\ blobs = [b \in BlobNames |-> NoBlob]
    /\ InitMain
    /\ sent = NoSent
    /\ \E n \in DatasetLengths, shape \in {"up", "saw"} :
         probe = [k |-> "call", df |-> read_csv(ProcessedCsv(n, shape)),
                  ds |-> Pending, pred |-> Pending]

\* lstm_predictor.py:38-41: the scaled close column windowed by create_dataset.
\* (The scaler is only ever given 100 rows or more by train_and_predict; the
\* empty column is passed on empty here.)
ProbeCreateDataset ==
    /\ probe.k = "call"
    /\ probe.ds = Pending
    /\ probe' = [probe EXCEPT !.ds =
                    create_dataset(MinMaxScale(Closes(probe.df)), look_back)]
    /\ UNCHANGED <<profile, blobs, pc, i, df_raw, client, insights, predictions,
                   stage, log, sent>>

ProbeTrainAndPredict ==
    /\ probe.k = "call"
    /\ probe.pred = Pending
    /\ \E out \in ModelOutputs(CloseAt(probe.df.shape, probe.df.n)) :
         probe' = [probe EXCEPT !.pred = train_and_predict(probe.df, out)]
    /\ UNCHANGED <<profile, blobs, pc, i, df_raw, client, insights, predictions,
                   stage, log, sent>>

NextDataset == ProbeCreateDataset \/ ProbeTrainAndPredict

SpecDataset == InitDataset /\ [][NextDataset]_vars

(***************************************************************************)
(* SpecSentiment: runs of run_sentiment_pipeline, one after another, next  *)
(* to a run of main() that has reached its Prediction stage over processed *)
(* tables that are absent or one row short of the threshold.  main() runs  *)
(* on without waiting for anything, so its steps are weakly fair.          *)
(***************************************************************************)
InitSentiment ==
    /\ profile = "sentiment"
    /\ \E tables \in [TickerSet -> {NoBlob, ProcessedCsv(MinRows - 1, "up")}] :
         blobs = [b \in BlobNames |->
                    IF \E t \in TickerSet : b = ProcessedBlob(t)
                    THEN tables[b[2]] ELSE NoBlob]
    /\ pc = [p \in Procs |-> IF p = "timer" THEN NextStage("ai") ELSE "idle"]
    /\ i = [p \in Procs |-> 1]
    /\ df_raw = [p \in Procs |-> EmptyDF]
    /\ client = [p \in Procs |-> None]
    /\ insights = [p \in Procs |-> <<>>]
    /\ predictions = [p \in Procs |-> <<>>]
    /\ stage = [p \in Procs |->
                  IF p = "timer"
                  THEN [main |-> "running", fetched |-> tickers,
                        ai |-> "skipped", lstm |-> "none"]
                  ELSE NoStage]
    /\ log = [p \in Procs |-> <<>>]
    /\ sent = NoSent
    /\ probe = NoProbe

SentStep == SentStart \/ SentTicker \/ SentLoopEnd \/ SentSave \/ SentReturn

NextSentiment ==
    \/ SentStart
    \/ SentTicker
    \/ SentLoopEnd
    \/ SentSave
    \/ SentReturn
    \/ LstmStart("timer")
    \/ LstmTicker("timer")
    \/ LstmSave("timer")

SpecSentiment ==
    InitSentiment /\ [][NextSentiment]_vars
        /\ WF_vars(LstmStart("timer") \/ LstmTicker("timer") \/ LstmSave("timer"))

(***************************************************************************)
(* SpecInsight: the Insight stage of one run, over processed tables with   *)
(* zero, one, two and many rows, with and without an API key, and every    *)
(* kind of answer of the completion service.                               *)
(***************************************************************************)
\* A processed blob holding the header line and no data row.
HeaderOnlyCsv == [ProcessedCsv(1, "up") EXCEPT !.n = 0]

InsightTables ==
    {NoBlob, HeaderOnlyCsv, ProcessedCsv(1, "up"), ProcessedCsv(2, "up"),
     ProcessedCsv(MinRows, "saw")}

InitInsight ==
    /\ profile = "insight"
    /\ \E tables \in [TickerSet -> InsightTables] :
         blobs = [b \in BlobNames |->
                    IF \E t \in TickerSet : b = ProcessedBlob(t)
                    THEN tables[b[2]] ELSE NoBlob]
    /\ pc = [p \in Procs |-> IF p = "timer" THEN NextStage("etl") ELSE "idle"]
    /\ i = [p \in Procs |-> 1]
    /\ df_raw = [p \in Procs |-> EmptyDF]
    /\ client = [p \in Procs |-> None]
    /\ insights = [p \in Procs |-> <<>>]
    /\ predictions = [p \in Procs |-> <<>>]
    /\ stage = [p \in Procs |->
                  IF p = "timer"
                  THEN [main |-> "running", fetched |-> tickers,
                        ai |-> "none", lstm |-> "none"]
                  ELSE NoStage]
    /\ log = [p \in Procs |-> <<>>]
    /\ sent = NoSent
    /\ probe = NoProbe

NextInsight ==
    \/ AiStart("timer")
    \/ AiTicker("timer")
    \/ AiSave("timer")

SpecInsight == InitInsight /\ [][NextInsight]_vars

(***************************************************************************)
(* SpecNews: fetch_and_analyze_news called directly on every list of up to *)
(* one item more than the default limit.  An item has the structure the    *)
(* function reads: "content" absent or a dict, whose "title" is absent,    *)
(* empty or a headline and whose "clickThroughUrl" is absent or a dict.    *)
(***************************************************************************)
NewsItemKinds ==
    {NewsItem(Titled("gain"), Url("u1")),
     NewsItem(Titled("flat"), None),
     NewsItem(None, Url("u2")),
     NewsItem(Titled(""), Url("u3")),
     NoContentItem}

RECURSIVE NewsListsOf(_)
NewsListsOf(n) ==
    IF n = 0 THEN {<<>>}
    ELSE {Append(items, item) : items \in NewsListsOf(n - 1), item \in NewsItemKinds}

NewsLists ==
    UNION {NewsListsOf(n) : n \in 0..(NewsLimit + 1)}

InitNews ==
    /\ profile = "news"
    /\ blobs = [b \in BlobNames |-> NoBlob]
    /\ InitMain
    /\ sent = NoSent
    /\ \E items \in NewsLists, limit \in {1, NewsLimit} :
         probe = [k |-> "news", ticker |-> tickers[1], resp |-> NewsList(items),
                  limit |-> limit, ret |-> Pending]

\* news_scraper.py:7-52 called with the list yf.Ticker(ticker).news gave.
ProbeNews ==
    /\ probe.k = "news"
    /\ probe.ret = Pending
    /\ probe' = [probe EXCEPT !.ret =
                    fetch_and_analyze_news(probe.ticker, probe.resp, probe.limit)]
    /\ UNCHANGED <<profile, blobs, pc, i, df_raw, client, insights, predictions,
                   stage, log, sent>>

NextNews == ProbeNews

SpecNews == InitNews /\ [][NextNews]_vars

(***************************************************************************)
(* SpecOverlap: the timer-triggered run and a manual run of main() at the  *)
(* same time, one run each, their steps interleaved on the one blob store. *)
(* The store answers every call; the market data source may still raise.   *)
(***************************************************************************)
InitOverlap ==
    /\ profile = "overlap"
    /\ blobs = [b \in BlobNames |-> NoBlob]
    /\ InitMain
    /\ sent = NoSent
    /\ probe = NoProbe

\* One run of main() by invocation p (function_app.py:9-20, main.py:114-115).
RunOnce(p) ==
    \/ stage[p].main = "none" /\ MainStart(p)
    \/ Fetch(p)
    \/ UploadRaw(p)
    \/ UploadProcessed(p)
    \/ Sleep(p)
    \/ AiStart(p)
    \/ AiTicker(p)
    \/ AiSave(p)
    \/ LstmStart(p)
    \/ LstmTicker(p)
    \/ LstmSave(p)
    \/ Return(p)

NextOverlap == RunOnce("timer") \/ RunOnce("manual")

SpecOverlap == InitOverlap /\ [][NextOverlap]_vars

(***************************************************************************)
(* SpecChat: one call of generate_chat_response for every combination of   *)
(* its arguments, with and without an API key.                             *)
(***************************************************************************)
ChatFrames ==
    {EmptyDF, read_csv(ProcessedCsv(2, "up")),
     read_csv(to_csv(fetch_stock_data("old", YfFrame(NoCloseCols, 2, "up")), TRUE))}

ChatHistories ==
    {<<>>,
     <<[role |-> "user", content |-> <<"Is it rising?">>],
       [role |-> "assistant", content |-> <<"The trend is bullish.">>],
       [role |-> "user", content |-> <<"And tomorrow?">>]>>}

ChatSentiments ==
    {None, List(<<>>),
     List(fetch_and_analyze_news(tickers[1],
            NewsList(<<NewsItem(Titled("gain"), None), NewsItem(Titled("flat"), None),
                       NewsItem(Titled("loss"), None), NewsItem(Titled("gain"), None)>>),
            NewsLimit).results)}

ChatArgs ==
    [client : Clients,
     messages : ChatHistories,
     current_ticker : TickerSet,
     recent_data : ChatFrames,
     prediction : {None, [k |-> "dict", price |-> Num(201), direction |-> "UP"]},
     market_context : {None, Str("S&P 500 is up 1%")},
     sentiment_context : ChatSentiments]

InitChat ==
    /\ profile = "chat"
    /\ blobs = [b \in BlobNames |-> NoBlob]
    /\ InitMain
    /\ sent = NoSent
    /\ \E a \in ChatArgs :
         probe = [k |-> "chat", args |-> a, ret |-> Pending,
                  request |-> <<>>, outcome |-> NoCall]

NextChat == ChatCall

SpecChat == InitChat /\ [][NextChat]_vars

(***************************************************************************)
(* SpecTransform: transform_data called on every non-empty series up to a  *)
(* length, of three shapes, with all or some of the OHLCV columns.         *)
(***************************************************************************)
MaxSeriesLen == 9

InitTransform ==
    /\ profile = "transform"
    /\ blobs = [b \in BlobNames |-> NoBlob]
    /\ InitMain
    /\ sent = NoSent
    /\ \E n \in 1..MaxSeriesLen, shape \in {"up", "saw", "flat"},
          cols \in {FullCols, <<"Close", "Volume">>} :
         LET df == fetch_stock_data("old", YfFrame(cols, n, shape))
         IN probe = [k |-> "transform", df |-> df, table |-> Table(df), ret |-> Pending]

NextTransform == ProbeTransform

SpecTransform == InitTransform /\ [][NextTransform]_vars

(***************************************************************************)
(* Properties.                                                             *)
(***************************************************************************)
EtlPcs == {"fetch", "upload_raw", "upload_processed", "sleep"}
LstmPcs == {"lstm_start", "lstm_loop", "lstm_save", "done"}
Finished == {"uploaded", "skipped", "failed"}

Rows(content) == IF content = NoBlob THEN <<>> ELSE content.rows

\* The tickers of the fetch events of p's log, in order.
FetchedTickers(p) ==
    LET F == SelectSeq(log[p], LAMBDA e : e.op = "fetch")
    IN [n \in 1..Len(F) |-> F[n].arg[2]]

\* The blobs p's loop uploaded for ticker t, in order.
UploadsOf(p, t) ==
    LET U == SelectSeq(log[p], LAMBDA e : e.op = "upload" /\ e.arg[2] = t)
    IN [n \in 1..Len(U) |-> U[n].arg]

\* Ticker t's fetch gave data and none of its steps raised.
Succeeded(p, t) ==
    /\ \E n \in 1..Len(log[p]) :
         log[p][n].op = "fetch" /\ log[p][n].arg = <<"yfinance", t, "data">>
    /\ ~\E n \in 1..Len(log[p]) : log[p][n].op = "error" /\ log[p][n].arg[2] = t

IsPrefix(s, t) == Len(s) <= Len(t) /\ s = SubSeq(t, 1, Len(s))

\* C1: a stage's exception never aborts the run.  When run_ai_pipeline has
\* raised, main is still running and is at or past the call of
\* run_lstm_pipeline, which it can make; when run_lstm_pipeline has raised,
\* main is at its end and can return; main itself raises only before the
\* blob client exists, with no stage started.
C1_StageFailureIsolated ==
    \A p \in Procs :
        /\ stage[p].ai = "failed" =>
              /\ stage[p].main = "running"
              /\ pc[p] \in LstmPcs
              /\ pc[p] = "lstm_start" => ENABLED LstmStart(p)
              /\ pc[p] # "lstm_start" => stage[p].lstm # "none"
        /\ stage[p].lstm = "failed" =>
              /\ stage[p].main = "running"
              /\ pc[p] = "done"
              /\ ENABLED Return(p)
        /\ stage[p].main = "raised" =>
              /\ pc[p] = "idle"
              /\ stage[p].ai = "none" /\ stage[p].lstm = "none"

C1_Witness ==
    /\ stage["timer"].ai = "failed"
    /\ stage["timer"].lstm = "failed"
    /\ pc["timer"] = "done"

\* C2: in the Fetch-Transform loop the tickers are fetched in configured
\* order whatever happened to the earlier ones, a ticker's uploads are its
\* raw blob and then its processed blob, and when the loop has ended every
\* ticker has been fetched and each ticker whose fetch gave data and whose
\* steps did not raise has exactly these two uploads, both in the store.
C2_FetchTransformIsolation ==
    \A p \in Procs :
        (pc[p] \in EtlPcs \cup {"ai_start"} /\ stage[p].main = "running") =>
            /\ IsPrefix(FetchedTickers(p), tickers)
            /\ \A t \in TickerSet :
                 IsPrefix(UploadsOf(p, t), <<RawBlob(t), ProcessedBlob(t)>>)
            /\ pc[p] = "ai_start" =>
                 /\ FetchedTickers(p) = tickers
                 /\ \A t \in TickerSet :
                      Succeeded(p, t) =>
                          /\ UploadsOf(p, t) = <<RawBlob(t), ProcessedBlob(t)>>
                          /\ blobs[RawBlob(t)] # NoBlob /\ blobs[RawBlob(t)].by = p
                          /\ blobs[ProcessedBlob(t)] # NoBlob
                          /\ blobs[ProcessedBlob(t)].by = p

C2_Witness ==
    /\ pc["timer"] = "ai_start"
    /\ ~Succeeded("timer", tickers[1])
    /\ \E n \in 1..Len(log["timer"]) :
         log["timer"][n] = Event("etl", "error", ProcessedBlob(tickers[1]))
    /\ Succeeded("timer", tickers[2])
    /\ UploadsOf("timer", tickers[2]) = <<RawBlob(tickers[2]), ProcessedBlob(tickers[2])>>

\* C3: the stages of a run go in the order Fetch-Transform, Insight,
\* Prediction.  Whenever the Insight stage has touched a blob, the loop has
\* fetched every configured ticker and has ended; whenever the Prediction
\* stage has touched a blob, the Insight stage has ended (uploaded, skipped
\* or failed).
C3_StageOrder ==
    \A p \in Procs : \A n \in 1..Len(log[p]) :
        /\ log[p][n].st = "ai" =>
              /\ stage[p].fetched = tickers
              /\ pc[p] \notin EtlPcs
              /\ stage[p].lstm = "none"
        /\ log[p][n].st = "lstm" =>
              /\ stage[p].fetched = tickers
              /\ pc[p] \notin EtlPcs
              /\ stage[p].ai \in Finished

C3_Witness ==
    /\ stage["timer"].ai = "failed"
    /\ \E n \in 1..Len(log["timer"]) :
         log["timer"][n] = Event("lstm", "download", ProcessedBlob(tickers[2]))

\* C4 as claimed: once a stage of the run has finished without raising, its
\* aggregate blob holds exactly the rows this run generated, also when the
\* run generated none.
C4_AggregateIsThisRuns ==
    \A p \in Procs :
        /\ stage[p].ai \in {"uploaded", "skipped"} =>
              Rows(blobs[AiBlob]) = insights[p]
        /\ stage[p].lstm \in {"uploaded", "skipped"} =>
              Rows(blobs[LstmBlob]) = predictions[p]

\* Every row of an aggregate blob was generated by an ended run.
AllOld(content) ==
    content # NoBlob =>
        /\ content.by = "old"
        /\ \A n \in 1..Len(content.rows) : content.rows[n].run = "old"

\* C4, amended: a stage that generated at least one row and finished without
\* raising has replaced its aggregate blob by exactly this run's rows; a
\* stage that generated no row uploads nothing, and the blob keeps what an
\* earlier run left in it (or stays absent).
C4_OverwriteUnlessEmpty ==
    \A p \in Procs :
        /\ stage[p].ai = "uploaded" =>
              /\ insights[p] # <<>>
              /\ blobs[AiBlob] = [header |-> InsightsHeader, rows |-> insights[p], by |-> p]
              /\ \A n \in 1..Len(insights[p]) : insights[p][n].run = p
        /\ stage[p].ai = "skipped" => insights[p] = <<>> /\ AllOld(blobs[AiBlob])
        /\ stage[p].lstm = "uploaded" =>
              /\ predictions[p] # <<>>
              /\ blobs[LstmBlob] =
                    [header |-> PredictionsHeader, rows |-> predictions[p], by |-> p]
              /\ \A n \in 1..Len(predictions[p]) : predictions[p][n].run = p
        /\ stage[p].lstm = "skipped" => predictions[p] = <<>> /\ AllOld(blobs[LstmBlob])

C4_Witness ==
    /\ stage["timer"].ai = "skipped"
    /\ blobs[AiBlob] # NoBlob
    /\ stage["timer"].lstm = "uploaded"
    /\ blobs[LstmBlob].rows = predictions["timer"]

LstmEvents(p, t, op) ==
    SelectSeq(log[p], LAMBDA e : e.st = "lstm" /\ e.op = op /\ e.arg = StageInput(t))

RowsFor(rows, t) == {n \in 1..Len(rows) : rows[n].Ticker = t}

C9_NonFiniteSkipped ==
    \A p \in Procs :
        /\ \A n \in 1..Len(predictions[p]) : predictions[p][n].Predicted.k = "num"
        /\ \A n \in 1..Len(Rows(blobs[LstmBlob])) :
              Rows(blobs[LstmBlob])[n].Predicted.k = "num"

\* C10 as claimed: every ticker for which train_and_predict returned a value
\* other than None, 0 included, has exactly one row, whose Direction is UP
\* when the value is greater than the last close and DOWN otherwise, and
\* whose Predicted % Change is (value - close) / close * 100.
C10_RowPerPrediction ==
    \A p \in Procs : \A t \in TickerSet :
        \A n \in 1..Len(LstmEvents(p, t, "predict")) :
            LET x == LstmEvents(p, t, "predict")[n].val
                c == CloseAt(read_csv(blobs[StageInput(t)]).shape,
                             read_csv(blobs[StageInput(t)]).n)
                rows == RowsFor(predictions[p], t)
            IN x # None =>
                /\ Cardinality(rows) = 1
                /\ \A r \in rows :
                     /\ predictions[p][r].Predicted = x
                     /\ predictions[p][r].Current = c
                     /\ predictions[p][r].Direction =
                           IF x.k = "num" /\ x.v > c THEN "UP"
                           ELSE IF x = PosInf THEN "UP" ELSE "DOWN"
                     /\ x.k = "num" =>
                           /\ predictions[p][r].Pct.num = (x.v - c) * 100
                           /\ predictions[p][r].Pct.den = c


\* C8: for a series of any length L, create_dataset with look-back 60 gives
\* exactly max(0, L - 61) examples; example i (from 0) has the inputs
\* scaled[i .. i+59] and the target scaled[i+60]; and train_and_predict
\* returns None whenever that number is zero.
C8_DatasetWindows ==
    (probe.k = "call" /\ probe.ds # Pending) =>
        LET L == probe.df.n
            scaled == MinMaxScale(Closes(probe.df))
            count == IF L - 61 > 0 THEN L - 61 ELSE 0
        IN /\ Len(scaled) = L
           /\ Len(probe.ds.X) = count
           /\ Len(probe.ds.Y) = count
           /\ \A e \in 0 .. count - 1 :
                /\ probe.ds.X[e + 1] = [j \in 1..60 |-> scaled[e + j]]
                /\ probe.ds.Y[e + 1] = scaled[e + 60 + 1]
           /\ (count = 0 /\ probe.pred # Pending) => probe.pred = None

C8_Witness ==
    /\ probe.k = "call"
    /\ probe.df.n = look_back + 1 + MaxWindows
    /\ probe.df.shape = "saw"
    /\ probe.ds # Pending
    /\ Len(probe.ds.X) = MaxWindows
    /\ probe.ds.Y[1] # probe.ds.Y[2]


\* The tickers for which the News Source raised in this sentiment run.
NewsRaised == {n \in 1..Len(sent.asked) : sent.asked[n] = NewsError}

\* <<ticker, title>> of the first five titled headlines of every ticker the
\* News Source answered for, in ticker order.
RECURSIVE ExpectedNews(_)
ExpectedNews(n) ==
    IF n = 0 THEN <<>>
    ELSE LET resp == sent.asked[n]
             first == IF resp = NewsError THEN <<>>
                      ELSE SubSeq(resp.items, 1,
                                 IF Len(resp.items) < 5 THEN Len(resp.items) ELSE 5)
             titled == SelectSeq(first, LAMBDA item : item.content.title # None)
         IN ExpectedNews(n - 1)
              \o [m \in 1..Len(titled) |-> <<tickers[n], titled[m].content.title.s>>]

NewsPairs(content) ==
    [n \in 1..Len(Rows(content)) |-> <<Rows(content)[n].ticker, Rows(content)[n].title>>]

SentErrors(op) == SelectSeq(sent.log, LAMBDA e : e.op = op)

C6_Isolation ==
    (sent.pc = "done" /\ Cardinality(NewsRaised) = 1) =>
        /\ SentErrors("pipeline_error") = <<>>
        /\ \A n \in NewsRaised :
              \E e \in 1..Len(sent.log) :
                 sent.log[e] = Event("sentiment", "news_error", NewsOf(tickers[n]))
        /\ sent.saved \in {"uploaded", "skipped", "failed"}
        /\ sent.saved = "skipped" <=> ExpectedNews(Len(tickers)) = <<>>
        /\ sent.saved = "uploaded" =>
              /\ blobs[SentimentBlob] =
                    [header |-> SentimentHeader, rows |-> sent.all_news, by |-> "sent"]
              /\ NewsPairs(blobs[SentimentBlob]) = ExpectedNews(Len(tickers))
              /\ \A n \in NewsRaised : \A m \in 1..Len(Rows(blobs[SentimentBlob])) :
                    Rows(blobs[SentimentBlob])[m].ticker # tickers[n]
        /\ sent.saved # "uploaded" => AllOld(blobs[SentimentBlob])

AiEvents(p, t, op) ==
    SelectSeq(log[p], LAMBDA e : e.st = "ai" /\ e.op = op /\ e.arg = StageInput(t))

\* The Insight stage of p read ticker t's table and no exception came of it.
AiHandled(p, t) ==
    /\ stage[p].ai # "none"
    /\ AiEvents(p, t, "download") # <<>>
    /\ AiEvents(p, t, "error") = <<>>

\* The processed table of t holds a header line and no data row.
ZeroRows(t) ==
    /\ blobs[StageInput(t)] # NoBlob
    /\ ~ReadRaises(blobs[StageInput(t)])
    /\ blobs[StageInput(t)].n = 0

\* C11 as claimed: a ticker whose processed table exists and has zero rows
\* has no row among the insights the stage holds or has uploaded.
C11_ZeroRowsSkipped ==
    \A p \in Procs : \A t \in TickerSet :
        (ZeroRows(t) /\ stage[p].ai # "none") =>
            /\ RowsFor(insights[p], t) = {}
            /\ RowsFor(Rows(blobs[AiBlob]), t) = {}

\* C11, amended: a ticker whose processed table has zero rows is not
\* skipped.  Once the stage has read the table it holds exactly one row for
\* the ticker, whose Insight is "{ticker}: No data available." when a client
\* is configured and "{ticker}: No data available for insight." when none
\* is, and the row is in ai_insights.csv when the stage has uploaded.
C11_ZeroRowsPlaceholder ==
    \A p \in Procs : \A t \in TickerSet :
        (ZeroRows(t) /\ AiHandled(p, t)) =>
            /\ Cardinality(RowsFor(insights[p], t)) = 1
            /\ \A n \in RowsFor(insights[p], t) :
                  insights[p][n].Insight =
                     IF client[p] = None
                     THEN <<t, ": No data available for insight.">>
                     ELSE <<t, ": No data available.">>
            /\ stage[p].ai = "uploaded" =>
                  Cardinality(RowsFor(Rows(blobs[AiBlob]), t)) = 1

C11_Witness ==
    /\ stage["timer"].ai = "uploaded"
    /\ ZeroRows(tickers[1])
    /\ client["timer"] # None
    /\ Len(Rows(blobs[AiBlob])) = 2
    /\ Rows(blobs[AiBlob])[1].Insight = <<tickers[1], ": No data available.">>


\* C12 as claimed: for every ticker whose processed table has at least one
\* row, the Insight text of its row, held or uploaded, is not empty.
C12_InsightNonEmpty ==
    \A p \in Procs : \A t \in TickerSet :
        (blobs[StageInput(t)] # NoBlob /\ blobs[StageInput(t)].n >= 1
           /\ stage[p].ai # "none") =>
            /\ \A n \in RowsFor(insights[p], t) : insights[p][n].Insight # <<>>
            /\ \A n \in RowsFor(Rows(blobs[AiBlob]), t) :
                  Rows(blobs[AiBlob])[n].Insight # <<>>

\* The completion service was of no use to p for ticker t: no API key, or the
\* call was made and raised.
Unavailable(p, t) ==
    \/ client[p] = None
    \/ AiEvents(p, t, "completion_error") # <<>>

\* C13: when no API key is configured, or the completion call raised, the
\* failure stays inside generate_openai_insight: the ticker's handling logs
\* no error, the ticker has exactly one row, its Insight is the template
\* sentence of the ticker's processed table, and the row is in
\* ai_insights.csv when the stage has uploaded.
C13_FallbackIsTemplate ==
    \A p \in Procs : \A t \in TickerSet :
        LET blob == blobs[StageInput(t)]
        IN (stage[p].ai # "none" /\ AiEvents(p, t, "download") # <<>>
              /\ ~ReadRaises(blob) /\ Unavailable(p, t)) =>
            /\ AiEvents(p, t, "error") = <<>>
            /\ Cardinality(RowsFor(insights[p], t)) = 1
            /\ \A n \in RowsFor(insights[p], t) :
                  insights[p][n].Insight = generate_local_insight(read_csv(blob), t)
            /\ stage[p].ai = "uploaded" =>
                  \E n \in RowsFor(Rows(blobs[AiBlob]), t) :
                     Rows(blobs[AiBlob])[n].Insight = generate_local_insight(read_csv(blob), t)

C13_Witness ==
    /\ stage["timer"].ai = "uploaded"
    /\ client["timer"] # None
    /\ AiEvents("timer", tickers[1], "completion_error") # <<>>
    /\ blobs[StageInput(tickers[1])] = ProcessedCsv(1, "up")
    /\ Rows(blobs[AiBlob])[1].Insight = Template(read_csv(ProcessedCsv(1, "up")), tickers[1])
    /\ Len(Rows(blobs[AiBlob])[1].Insight) > 5


\* The call of generate_chat_response has returned or raised.
ChatDone == probe.k = "chat" /\ probe.ret # Pending

\* C14 as claimed: without an API key the result is the offline string; when
\* the completion call fails the result is a string that is one fixed
\* message, the same whatever the failure was.
C14_FixedOfflineMessage ==
    ChatDone =>
        /\ probe.args.client = None => probe.ret = ChatReturn(OfflineMessage)
        /\ probe.outcome.k = "raise" =>
              /\ probe.ret.k = "return"
              /\ \A e \in ChatErrors : generate_chat_response(probe.args, e) = probe.ret

\* C14, amended: without an API key the result is the one offline string,
\* whatever the other arguments; when the completion call fails nothing is
\* raised and the result is the string "FinBot Error: " followed by the text
\* of the exception, so it differs from failure to failure.
C14_ErrorTextReturned ==
    ChatDone =>
        /\ probe.args.client = None =>
              /\ probe.ret = ChatReturn(OfflineMessage)
              /\ probe.outcome = NoCall
        /\ probe.outcome.k = "raise" =>
              /\ probe.ret = ChatReturn(<<"FinBot Error: ", probe.outcome.msg>>)
              /\ probe.request[1].role = "system"
              /\ SubSeq(probe.request, 2, Len(probe.request)) = probe.args.messages

C14_Witness ==
    /\ ChatDone
    /\ probe.outcome = ChatError("Rate limit reached")
    /\ probe.ret = ChatReturn(<<"FinBot Error: ", "Rate limit reached">>)
    /\ Given(probe.args.prediction)
    /\ Given(probe.args.sentiment_context)
    /\ Given(probe.args.market_context)
    /\ probe.args.messages # <<>>
    /\ ~IsEmpty(probe.args.recent_data)


\* C15: for every non-empty series, the table transform_data returns has the
\* input's rows in the input's order (as many rows, every input column
\* unchanged), the dates as the leading column "Date", the input's columns
\* after it in their order and return_pct last, return_pct null on the first
\* row and on no other, where it is (close[t] - close[t-1]) / close[t-1];
\* the input table is as it was before the call.
C15_TransformRows ==
    (probe.k = "transform" /\ probe.ret # Pending) =>
        LET in == Table(probe.df)
            out == probe.ret
            n == probe.df.n
            close == [r \in 1..n |-> CloseAt(probe.df.shape, r)]
        IN /\ n >= 1
           /\ Len(out.index) = n
           /\ out.index = [r \in 1..n |-> r - 1]
           /\ out.cols = <<"Date">> \o in.cols \o <<"return_pct">>
           /\ out.col["Date"] = in.index
           /\ \A c \in Names(in.cols) : out.col[c] = in.col[c]
           /\ Len(out.col["return_pct"]) = n
           /\ out.col["return_pct"][1] = NaN
           /\ \A r \in 2..n :
                 out.col["return_pct"][r] =
                    [k |-> "ratio", num |-> close[r] - close[r - 1], den |-> close[r - 1]]
           /\ probe.table = in
           /\ out.cols = transform_data(probe.df).cols
           /\ Len(out.index) = transform_data(probe.df).n

C15_Witness ==
    /\ probe.k = "transform"
    /\ probe.ret # Pending
    /\ probe.df.n = MaxSeriesLen
    /\ probe.df.shape = "saw"
    /\ probe.df.cols = required_cols
    /\ probe.ret.col["return_pct"][2].num > 0
    /\ probe.ret.col["return_pct"][3].num < 0


\* C16 as claimed: in the Fetch-Transform loop of every run, between the
\* fetch of one ticker and the fetch of the next the 15-second sleep is
\* executed, whatever came of the earlier ticker.
C16_DelayBetweenFetches ==
    \A p \in Procs :
        \A a, b \in 1..Len(log[p]) :
            (a < b /\ log[p][a].st = "etl" /\ log[p][a].op = "fetch"
               /\ log[p][b].st = "etl" /\ log[p][b].op = "fetch") =>
                \E c \in (a + 1)..(b - 1) :
                    log[p][c] = Event("etl", "sleep", <<"time", log[p][a].arg[2], "15">>)


\* The item carries a title: it has content, and a non-empty title in it.
ItemTitled(item) ==
    /\ item.content # Missing
    /\ item.content.title # None
    /\ item.content.title.s # ""

FirstItems == Slice(probe.resp.items, probe.limit)

UploadEvent(b) ==
    Event(IF b = AiBlob THEN "ai" ELSE IF b = LstmBlob THEN "lstm" ELSE "etl",
          "upload", b)

\* This step is run p's upload to blob b.
UploadsIn(p, b) == log'[p] = Append(log[p], UploadEvent(b))

\* What run p is uploading to blob b, from its locals.
UploadOf(p, b) ==
    IF b = AiBlob THEN [header |-> InsightsHeader, rows |-> insights[p], by |-> p]
    ELSE IF b = LstmBlob THEN [header |-> PredictionsHeader, rows |-> predictions[p], by |-> p]
    ELSE IF b[1] = raw_container THEN to_csv(df_raw[p], TRUE)
    ELSE to_csv(transform_data(df_raw[p]), FALSE)

\* No blob mixes two uploads: every row of an aggregate was written by the
\* run whose upload the blob holds.
NoMix ==
    \A b \in BlobNames :
        (blobs[b] # NoBlob /\ "rows" \in DOMAIN blobs[b]) =>
            \A n \in 1..Len(blobs[b].rows) : blobs[b].rows[n].run = blobs[b].by

\* A step that is a run's upload to a blob leaves the blob holding that
\* upload in full, whatever it held; no other step changes the blob.
UploadReplaces ==
    \A b \in BlobNames :
        IF \E p \in Procs : UploadsIn(p, b)
        THEN \E p \in Procs : UploadsIn(p, b) /\ blobs'[b] = UploadOf(p, b)
        ELSE blobs'[b] = blobs[b]

\* C18: while the two runs overlap, every upload to a blob replaces the
\* blob's content by that upload in full and nothing else changes the blob,
\* so after both runs each blob holds the last upload made to it, never a
\* mix of two; different blobs may hold different runs' uploads.
C18_LastWriterWins == []NoMix /\ [][UploadReplaces]_vars

\* Both runs have returned; ai_insights.csv holds the timer run's upload,
\* whose row for a ticker was computed from the timer run's processed table,
\* while that ticker's processed blob holds the manual run's later upload.
C18_Witness ==
    /\ \A p \in Procs : stage[p].main = "returned"
    /\ blobs[AiBlob] # NoBlob
    /\ blobs[AiBlob].by = "timer"
    /\ blobs[LstmBlob] # NoBlob
    /\ \E n \in 1..Len(blobs[AiBlob].rows) :
         LET row == blobs[AiBlob].rows[n]
         IN /\ row.from = "timer"
            /\ blobs[ProcessedBlob(row.Ticker)] # NoBlob
            /\ blobs[ProcessedBlob(row.Ticker)].by = "manual"

====
